---- MODULE Spec2Model ----
(***************************************************************************)
(* Immutable text buffers of txed: a text_string owns its characters, a    *)
(* text_replacement is a base with [cut_from, cut_to) replaced by          *)
(* [patch_from, patch_to) of a patch.  Every text_object carries a rope:   *)
(* a std::map from cumulative end offset to a string_segment, a pair of    *)
(* iterators into the characters of a text_string.                         *)
(*                                                                         *)
(* The state is the heap of text objects built so far, the strings the     *)
(* caller handed to text_string, the objects not yet destroyed, the record *)
(* of the last call with its outcome, and whether the run has ended (a     *)
(* failed assertion, undefined behaviour, or an object built from bounds   *)
(* given in the wrong order).  Two drafts hold this design, one with int offsets    *)
(* and one templated on the string type with size_type offsets; the rope   *)
(* is built by the same code in both.  A string iterator is modelled as    *)
(* (own, position): the std::string whose characters it points into and    *)
(* the 0-based position, so a string_segment is (own, b, e).               *)
(***************************************************************************)
EXTENDS Integers, Sequences, FiniteSets

VARIABLES bufs, strs, live, last, halted

vars == <<bufs, strs, live, last, halted>>

\* ------------------------------------------------------------------ bounds
\* most text objects on the heap
MaxBufs == 3
\* longest string handed to text_string
MaxStrLen == 2
\* how far an index may lie beyond length() in the calls that are tried
MaxOver == 1
\* most text objects on the heap when single characters are read or
\* iterators are compared
MaxReadBufs == 2
\* how far from begin() the compared iterators are moved
MaxStep == 1
\* the greatest distance an iterator is moved by in one step, either way
MaxDelta == 2

\* The code never looks at a character, it only hands out references to it.
\* The k-th character of the n-th string given to a text_string is the token
\* <<n, k>>: all characters differ, so a character read at the wrong place or
\* from the wrong string always shows.
Char(n, k) == <<n, k>>

\* the texts the n-th string given to a text_string may hold
Strings(n) == {[k \in 1..len |-> Char(n, k)] : len \in 0..MaxStrLen}

\* TString::size_type is unsigned: its values are taken modulo SizeMod
\* (16 bits here, wide enough that no valid offset wraps).
SizeMod == 2^16

to_size(x) == x % SizeMod

\* TString::difference_type: the signed reading of a size_type value
to_diff(x) == LET r == x % SizeMod IN IF r >= SizeMod \div 2 THEN r - SizeMod ELSE r

max(a, b) == IF a >= b THEN a ELSE b

min(a, b) == IF a <= b THEN a ELSE b

\* -------------------------------------------------------------------- rope
\* rope_node: (end_offset, string_segment(begin, end)); begin and end point
\* into the characters of the std::string number own.
rope_node(eo, own, b, e) == [eo |-> eo, own |-> own, b |-> b, e |-> e]

\* std::map::lower_bound in the place of upper_bound: the first node with
\* key >= k
upper_bound_not_less(m, k) ==
  IF \E n \in 1..Len(m) : m[n].eo >= k
  THEN CHOOSE n \in 1..Len(m) : m[n].eo >= k /\ \A j \in 1..(n - 1) : m[j].eo < k
  ELSE Len(m) + 1

\* std::map::upper_bound: position of the first node with key > k,
\* Len(m) + 1 standing for m.end()
upper_bound(m, k) ==
  IF \E n \in 1..Len(m) : m[n].eo > k
  THEN CHOOSE n \in 1..Len(m) : m[n].eo > k /\ \A j \in 1..(n - 1) : m[j].eo <= k
  ELSE Len(m) + 1

\* the two assertions of rope_node_trimmer::operator()
trimmer_asserts(nb, ne, x) ==
  LET begin_offset == x.eo - (x.e - x.b)
  IN  x.eo >= nb /\ begin_offset <= ne

\* the trimmer without the shift of the end of the segment
rope_node_trimmer_end_kept(nb, ne, shift, x) ==
  LET len          == x.e - x.b
      begin_offset == to_size(x.eo - len)
      begin_shift  == max(0, to_diff(nb - begin_offset))
      end_shift    == min(0, to_diff(ne - x.eo))
  IN  rope_node(to_size(x.eo - nb + end_shift + shift), x.own, x.b + begin_shift, x.e)

\* the trimmer that leaves the begin of the segment where it was
rope_node_trimmer_begin_kept(nb, ne, shift, x) ==
  LET len          == x.e - x.b
      begin_offset == to_size(x.eo - len)
      begin_shift  == max(0, to_diff(nb - begin_offset))
      end_shift    == min(0, to_diff(ne - x.eo))
  IN  rope_node(to_size(x.eo - nb + end_shift + shift), x.own, x.b, x.e + end_shift)

\* the trimmer with std::min in the place of std::max for the begin
rope_node_trimmer_begin_min(nb, ne, shift, x) ==
  LET len          == x.e - x.b
      begin_offset == to_size(x.eo - len)
      begin_shift  == min(0, to_diff(nb - begin_offset))
      end_shift    == min(0, to_diff(ne - x.eo))
  IN  rope_node(to_size(x.eo - nb + end_shift + shift),
                x.own, x.b + begin_shift, x.e + end_shift)

\* the trimmer without the shift of the end offset
rope_node_trimmer_no_shift(nb, ne, shift, x) ==
  LET len          == x.e - x.b
      begin_offset == to_size(x.eo - len)
      begin_shift  == max(0, to_diff(nb - begin_offset))
      end_shift    == min(0, to_diff(ne - x.eo))
  IN  rope_node(to_size(x.eo - nb + end_shift),
                x.own, x.b + begin_shift, x.e + end_shift)

\* rope_node_trimmer::operator(): the node restricted to [nb, ne) and moved
\* by shift
rope_node_trimmer(nb, ne, shift, x) ==
  LET len          == x.e - x.b
      begin_offset == to_size(x.eo - len)
      begin_shift  == max(0, to_diff(nb - begin_offset))
      end_shift    == min(0, to_diff(ne - x.eo))
  IN  rope_node(to_size(x.eo - nb + end_shift + shift),
                x.own, x.b + begin_shift, x.e + end_shift)

\* begin() at the begin of the map
trimmed_begin_of_map(m, nb) == 1

\* rope_trimmed_range::begin
trimmed_begin(m, nb) == upper_bound(m, nb)

\* end() without the step past the node that holds ne
trimmed_end_no_step(m, ne) == upper_bound(m, ne)

\* rope_trimmed_range::end: one past the first node whose key exceeds ne
trimmed_end(m, ne) ==
  LET it == upper_bound(m, ne)
  IN  IF it # Len(m) + 1 THEN it + 1 ELSE it

\* rope_trimmed_range::range read from begin() to end(): the nodes the
\* trimmer returns for the nodes of m from begin() up to end().  (The draft
\* with size_type offsets declares the reference type of the transform
\* iterator as rope::const_reference; the nodes are taken here as the values
\* the trimmer returns, which is what the draft with int offsets hands out.)
\* "undefined" when begin() lies behind end(): the walk leaves the map.
rope_trimmed_range(m, nb, ne, shift) ==
  LET bi == trimmed_begin(m, nb)
      ei == trimmed_end(m, ne)
  IN  IF bi > ei
      THEN [out |-> "undefined", nodes |-> << >>]
      ELSE IF \E n \in bi..(ei - 1) : ~trimmer_asserts(nb, ne, m[n])
      THEN [out |-> "assert", nodes |-> << >>]
      ELSE [out |-> "ok",
            nodes |-> [n \in 1..(ei - bi) |->
                         rope_node_trimmer(nb, ne, shift, m[bi + n - 1])]]

\* insertion by assignment, result[key] = segment: the later node wins
map_insert_assign(m, x) ==
  IF \E n \in 1..Len(m) : m[n].eo = x.eo
  THEN [n \in 1..Len(m) |-> IF m[n].eo = x.eo THEN x ELSE m[n]]
  ELSE LET k == Cardinality({n \in 1..Len(m) : m[n].eo < x.eo})
       IN  SubSeq(m, 1, k) \o <<x>> \o SubSeq(m, k + 1, Len(m))

\* std::map::insert of one node: a key already present keeps its node
map_insert(m, x) ==
  IF \E n \in 1..Len(m) : m[n].eo = x.eo
  THEN m
  ELSE LET k == Cardinality({n \in 1..Len(m) : m[n].eo < x.eo})
       IN  SubSeq(m, 1, k) \o <<x>> \o SubSeq(m, k + 1, Len(m))

\* std::map(first, last): the nodes inserted in the order of the range
RECURSIVE map_from_range(_, _)
map_from_range(m, s) ==
  IF s = << >> THEN m ELSE map_from_range(map_insert(m, Head(s)), Tail(s))

\* text_object::length
length(o) == IF o.m_rope = << >> THEN 0 ELSE o.m_rope[Len(o.m_rope)].eo

\* the capacity of the string as the key in the place of its length
string_to_rope_capacity(value, addr) ==
  IF Len(value) # 0 THEN <<rope_node(MaxStrLen, addr, 0, Len(value))>> ELSE << >>

\* text_string::string_to_rope(value): value.cbegin() and value.cend() are
\* iterators into the string the function is given, the one at address addr
string_to_rope(value, addr) ==
  IF Len(value) # 0 THEN <<rope_node(Len(value), addr, 0, Len(value))>> ELSE << >>

\* only the bounds of the cut asserted
make_rope_asserts_cut_only(base, cut_from, cut_to, patch, patch_from, patch_to) ==
  /\ cut_from <= length(base)
  /\ cut_to <= length(base)

\* the four assertions that open text_replacement::make_rope
make_rope_asserts(base, cut_from, cut_to, patch, patch_from, patch_to) ==
  /\ cut_from <= length(base)
  /\ cut_to <= length(base)
  /\ patch_from <= length(patch)
  /\ patch_to <= length(patch)

\* make_rope with the postfix view taken from the begin of the base
make_rope_postfix_whole_base(base, cut_from, cut_to, patch, patch_from, patch_to) ==
  IF ~make_rope_asserts(base, cut_from, cut_to, patch, patch_from, patch_to)
  THEN [out |-> "assert", rope |-> << >>]
  ELSE
    LET prefix_view  == rope_trimmed_range(base.m_rope, 0, cut_from, 0)
        patch_view   == rope_trimmed_range(patch.m_rope, patch_from, patch_to, cut_from)
        postfix_view == rope_trimmed_range(base.m_rope, 0, length(base),
                                           to_size(cut_from + patch_to - patch_from))
        outs         == {prefix_view.out, patch_view.out, postfix_view.out}
    IN  IF "undefined" \in outs THEN [out |-> "undefined", rope |-> << >>]
        ELSE IF "assert" \in outs THEN [out |-> "assert", rope |-> << >>]
        ELSE [out |-> "ok",
              rope |-> map_from_range(<< >>,
                         prefix_view.nodes \o patch_view.nodes \o postfix_view.nodes)]

\* make_rope with the patch view left at the offsets it has in the patch
make_rope_patch_unshifted(base, cut_from, cut_to, patch, patch_from, patch_to) ==
  IF ~make_rope_asserts(base, cut_from, cut_to, patch, patch_from, patch_to)
  THEN [out |-> "assert", rope |-> << >>]
  ELSE
    LET prefix_view  == rope_trimmed_range(base.m_rope, 0, cut_from, 0)
        patch_view   == rope_trimmed_range(patch.m_rope, patch_from, patch_to, 0)
        postfix_view == rope_trimmed_range(base.m_rope, cut_to, length(base),
                                           to_size(cut_from + patch_to - patch_from))
        outs         == {prefix_view.out, patch_view.out, postfix_view.out}
    IN  IF "undefined" \in outs THEN [out |-> "undefined", rope |-> << >>]
        ELSE IF "assert" \in outs THEN [out |-> "assert", rope |-> << >>]
        ELSE [out |-> "ok",
              rope |-> map_from_range(<< >>,
                         prefix_view.nodes \o patch_view.nodes \o postfix_view.nodes)]

\* text_replacement::make_rope
make_rope(base, cut_from, cut_to, patch, patch_from, patch_to) ==
  IF ~make_rope_asserts(base, cut_from, cut_to, patch, patch_from, patch_to)
  THEN [out |-> "assert", rope |-> << >>]
  ELSE
    LET prefix_view  == rope_trimmed_range(base.m_rope, 0, cut_from, 0)
        patch_view   == rope_trimmed_range(patch.m_rope, patch_from, patch_to, cut_from)
        postfix_view == rope_trimmed_range(base.m_rope, cut_to, length(base),
                                           to_size(cut_from + patch_to - patch_from))
        outs         == {prefix_view.out, patch_view.out, postfix_view.out}
    IN  IF "undefined" \in outs THEN [out |-> "undefined", rope |-> << >>]
        ELSE IF "assert" \in outs THEN [out |-> "assert", rope |-> << >>]
        ELSE [out |-> "ok",
              rope |-> map_from_range(<< >>,
                         prefix_view.nodes \o patch_view.nodes \o postfix_view.nodes)]

\* ------------------------------------------------------------ text objects
\* text_string(value), value being the caller's string at address addr: the
\* base class is built first, from string_to_rope(value), and then m_value
\* as a copy of value
text_string(value, addr) ==
  [kind |-> "string", m_value |-> value, m_rope |-> string_to_rope(value, addr),
   m_base |-> 0, m_patch |-> 0, m_patch_begin |-> 0, m_postfix_begin |-> 0,
   m_prefix_length |-> 0, m_patch_length |-> 0, m_length |-> 0]

\* text_replacement(base, cut_from, cut_to, patch, patch_from, patch_to), the
\* offset overload, with the rope make_rope returned; bi and pi are the
\* addresses of base and patch
text_replacement(rope, bi, base, cut_from, cut_to, pi, patch_from, patch_to) ==
  [kind |-> "replacement", m_value |-> << >>, m_rope |-> rope,
   m_base |-> bi, m_patch |-> pi,
   m_patch_begin |-> to_size(0 + patch_from),
   m_postfix_begin |-> to_size(0 + cut_to),
   m_prefix_length |-> cut_from,
   m_patch_length |-> to_size(patch_to - patch_from),
   m_length |-> to_size(length(base) - (cut_to - cut_from) + (patch_to - patch_from))]

\* the rope of a replacement written into its base as well
new_object_shared_rope(heap, o) ==
  IF o.kind = "replacement"
  THEN Append([heap EXCEPT ![o.m_base].m_rope = o.m_rope], o)
  ELSE Append(heap, o)

\* a new object is placed at a fresh address; objects already there are const
new_object(heap, o) == Append(heap, o)

\* ------------------------------------------------------------------- reads
\* *atom_it for a string iterator (own, pos): the character that string holds
\* now, or undefined behaviour when the string is gone or pos is no position
\* of a character of it
deref(ss, own, pos) ==
  IF ss[own].alive /\ pos >= 0 /\ pos < Len(ss[own].chars)
  THEN [out |-> "ok", val |-> ss[own].chars[pos + 1]]
  ELSE [out |-> "undefined", val |-> <<own, pos>>]

\* the position counted back from the end of the object in the place of the
\* end offset of the node
at_from_object_end(ss, o, i) ==
  LET segment_it == upper_bound(o.m_rope, i)
  IN  IF segment_it = Len(o.m_rope) + 1
      THEN [out |-> "text_out_of_range", val |-> <<i, length(o)>>]
      ELSE LET x == o.m_rope[segment_it]
           IN  deref(ss, x.own, x.e - to_diff(to_size(length(o) - i)))

\* text_object::at(size_type i)
at(ss, o, i) ==
  LET segment_it == upper_bound(o.m_rope, i)
  IN  IF segment_it = Len(o.m_rope) + 1
      THEN [out |-> "text_out_of_range", val |-> <<i, length(o)>>]
      ELSE LET x == o.m_rope[segment_it]
           IN  deref(ss, x.own, x.e - to_diff(to_size(x.eo - i)))

\* text_object::at(int i) of the draft with int offsets
at_int(ss, o, i) ==
  LET segment_it == upper_bound(o.m_rope, i)
  IN  IF segment_it = Len(o.m_rope) + 1
      THEN [out |-> "text_out_of_range", val |-> <<i, length(o)>>]
      ELSE LET x == o.m_rope[segment_it]
           IN  deref(ss, x.own, x.e - (x.eo - i))

\* ---- the earlier draft: no rope, at() walks down the chain of replacements
\* text_string::length and text_replacement::length of that draft
length_recursive(o) == IF o.kind = "string" THEN Len(o.m_value) ELSE o.m_length

\* the patch counted from its begin in the place of m_patch_begin
current_patch_from_begin(o, i) ==
  LET i_in_patch   == i - o.m_prefix_length
      i_in_postfix == i_in_patch - o.m_patch_length
  IN  IF i_in_postfix >= 0
      THEN [m_target |-> o.m_base, m_current_index |-> o.m_postfix_begin + i_in_postfix]
      ELSE IF i_in_patch >= 0
           THEN [m_target |-> o.m_patch, m_current_index |-> 0 + i_in_patch]
           ELSE [m_target |-> o.m_base, m_current_index |-> 0 + i]

\* the iterator current of text_replacement::at(int i): the three-way
\* dispatch to the postfix, the patch or the prefix
current(o, i) ==
  LET i_in_patch   == i - o.m_prefix_length
      i_in_postfix == i_in_patch - o.m_patch_length
  IN  IF i_in_postfix >= 0
      THEN [m_target |-> o.m_base, m_current_index |-> o.m_postfix_begin + i_in_postfix]
      ELSE IF i_in_patch >= 0
           THEN [m_target |-> o.m_patch, m_current_index |-> o.m_patch_begin + i_in_patch]
           ELSE [m_target |-> o.m_base, m_current_index |-> 0 + i]

\* at(int i) of that draft for the object at address n: text_string::at is
\* m_value.at(i), which throws std::out_of_range; text_replacement::at is
\* *current, and operator* is m_target->at(m_current_index)
RECURSIVE at_recursive(_, _, _)
at_recursive(heap, n, i) ==
  IF heap[n].kind = "string"
  THEN IF i >= 0 /\ i < Len(heap[n].m_value)
       THEN [out |-> "ok", val |-> heap[n].m_value[i + 1]]
       ELSE [out |-> "out_of_range", val |-> << >>]
  ELSE at_recursive(heap, current(heap[n], i).m_target, current(heap[n], i).m_current_index)

\* text_iterator(target, current_index)
create_iterator(target, i) == [m_target |-> target, m_current_index |-> i]

\* text_object::begin and text_object::end of the object at address b
begin(heap, b) == create_iterator(b, 0)

\* end() one past length()
end_past(heap, b) == create_iterator(b, length(heap[b]) + 1)

end(heap, b) == create_iterator(b, length(heap[b]))

\* text_object::to_string: std::string(cbegin(), cend()) reads *it for the
\* cend() - cbegin() iterators from cbegin() on
to_string(ss, heap, b) ==
  LET n     == to_diff(end(heap, b).m_current_index - begin(heap, b).m_current_index)
      reads == [k \in 1..n |-> at(ss, heap[b], to_size(begin(heap, b).m_current_index + (k - 1)))]
  IN  IF \E k \in 1..n : reads[k].out # "ok"
      THEN LET k == CHOOSE j \in 1..n : reads[j].out # "ok" /\ \A h \in 1..(j - 1) : reads[h].out = "ok"
           IN  reads[k]
      ELSE [out |-> "ok", val |-> [k \in 1..n |-> reads[k].val]]

\* --------------------------------------------------------------- iterators
\* a move that stops at index 0
move_clamped(it, d) == [it EXCEPT !.m_current_index = max(0, it.m_current_index + d)]

\* text_iterator::move, m_current_index being a size_type
move(it, d) == [it EXCEPT !.m_current_index = to_size(it.m_current_index + d)]

\* text_iterator::move_to
move_to(it, k) == [it EXCEPT !.m_current_index = k]

\* text_iterator::is_at
is_at(it, k) == it.m_current_index = k

\* text_iterator::is_begin
is_begin(it) == is_at(it, 0)

\* is_end comparing with the index of the last character
is_end_last_char(heap, it) == is_at(it, to_size(length(heap[it.m_target]) - 1))

\* text_iterator::is_end
is_end(heap, it) == is_at(it, length(heap[it.m_target]))

\* text_iterator::move_to_begin and move_to_end
move_to_begin(it) == move_to(it, 0)

move_to_end(heap, it) == move_to(it, length(heap[it.m_target]))

\* operator++, operator--, operator+= and operator-=
op_inc(it) == move(it, 1)

op_dec(it) == move(it, -1)

op_add_assign(it, d) == move(it, d)

op_sub_assign(it, d) == move(it, to_diff(-d))

\* it + d and it - d, which boost::random_access_iterator_helper derives from
\* += and -= on a copy of it
op_plus_n(it, d) == op_add_assign(it, d)

op_minus_n(it, d) == op_sub_assign(it, d)

\* operator* reading the character behind the one the iterator is at
op_deref_next(ss, heap, it) == at(ss, heap[it.m_target], to_size(it.m_current_index + 1))

\* text_iterator::operator*
op_deref(ss, heap, it) == at(ss, heap[it.m_target], it.m_current_index)

\* it[d], which boost::random_access_iterator_helper derives as *(it + d);
\* it + d works on a copy, so it is what it was
op_index(ss, heap, it, d) == [res |-> op_deref(ss, heap, op_plus_n(it, d)), it |-> it]

\* the indices compared in the place of the targets
assert_comparable_by_index(i, j) == i.m_current_index = j.m_current_index

\* text_iterator::assert_comparable: TRUE when it does not throw
assert_comparable(i, j) == i.m_target = j.m_target

\* the difference taken the other way round
diff_reversed(x, y) ==
  IF ~assert_comparable(x, y)
  THEN [out |-> "iterator_mismatch", val |-> 0]
  ELSE [out |-> "ok", val |-> to_diff(y.m_current_index - x.m_current_index)]

\* text_iterator::diff
diff(x, y) ==
  IF ~assert_comparable(x, y)
  THEN [out |-> "iterator_mismatch", val |-> 0]
  ELSE [out |-> "ok", val |-> to_diff(x.m_current_index - y.m_current_index)]

\* text_iterator::operator== and operator<
op_eq(x, y) == LET d == diff(x, y) IN [out |-> d.out, val |-> d.out = "ok" /\ d.val = 0]

op_lt(x, y) == LET d == diff(x, y) IN [out |-> d.out, val |-> d.out = "ok" /\ d.val < 0]

\* !r of a comparison that returned; one that threw stays thrown
negated(r) == IF r.out = "ok" THEN [r EXCEPT !.val = ~r.val] ELSE r

\* the operators boost::random_access_iterator_helper derives from == and <:
\* x != y is !(x == y), x > y is y < x, x <= y is !(y < x), x >= y is !(x < y)
op_ne(x, y) == negated(op_eq(x, y))

op_gt(x, y) == op_lt(y, x)

op_le(x, y) == negated(op_lt(y, x))

op_ge(x, y) == negated(op_lt(x, y))

\* text_iterator::operator-(text_iterator)
op_minus(x, y) == diff(x, y)

\* the offset of an iterator taken from the end of the object
it_offset_from_end(heap, it, b) == diff(it, end(heap, b))

\* it - b->begin(), the offset the iterator overload of text_replacement
\* hands to make_rope
it_offset(heap, it, b) == diff(it, begin(heap, b))

\* the iterator overload taking the patch offsets from the indices of the
\* patch iterators, without patch->begin()
text_replacement_it_patch_unchecked(heap, bi, cut_from, cut_to, pi, patch_from, patch_to) ==
  LET cf == it_offset(heap, cut_from, bi)
      ct == it_offset(heap, cut_to, bi)
      pf == [out |-> "ok", val |-> patch_from.m_current_index]
      pt == [out |-> "ok", val |-> patch_to.m_current_index]
      pl == diff(patch_to, patch_from)
      cl == diff(cut_to, cut_from)
  IN  IF \E d \in {cf, ct, pf, pt, pl, cl} : d.out # "ok"
      THEN [out |-> "iterator_mismatch", obj |-> << >>]
      ELSE LET r == make_rope(heap[bi], to_size(cf.val), to_size(ct.val),
                              heap[pi], to_size(pf.val), to_size(pt.val))
           IN  [out |-> r.out,
                obj |-> [kind |-> "replacement", m_value |-> << >>, m_rope |-> r.rope,
                         m_base |-> bi, m_patch |-> patch_from.m_target,
                         m_patch_begin |-> patch_from.m_current_index,
                         m_postfix_begin |-> cut_to.m_current_index,
                         m_prefix_length |-> to_size(cf.val),
                         m_patch_length |-> to_size(pl.val),
                         m_length |-> to_size(length(heap[bi]) - cl.val + pl.val)]]

\* text_replacement(base, cut_from, cut_to, patch, patch_from, patch_to), the
\* iterator overload; bi and pi are the addresses of base and patch.  The
\* base class is built first, from make_rope of the four offsets, each of
\* which throws iterator_mismatch for an iterator of another object; the
\* members follow, m_patch_begin and m_postfix_begin being the iterators
\* themselves.
text_replacement_it(heap, bi, cut_from, cut_to, pi, patch_from, patch_to) ==
  LET cf == it_offset(heap, cut_from, bi)
      ct == it_offset(heap, cut_to, bi)
      pf == it_offset(heap, patch_from, pi)
      pt == it_offset(heap, patch_to, pi)
      pl == diff(patch_to, patch_from)
      cl == diff(cut_to, cut_from)
  IN  IF \E d \in {cf, ct, pf, pt, pl, cl} : d.out # "ok"
      THEN [out |-> "iterator_mismatch", obj |-> << >>]
      ELSE LET r == make_rope(heap[bi], to_size(cf.val), to_size(ct.val),
                              heap[pi], to_size(pf.val), to_size(pt.val))
           IN  [out |-> r.out,
                obj |-> [kind |-> "replacement", m_value |-> << >>, m_rope |-> r.rope,
                         m_base |-> bi, m_patch |-> patch_from.m_target,
                         m_patch_begin |-> patch_from.m_current_index,
                         m_postfix_begin |-> cut_to.m_current_index,
                         m_prefix_length |-> to_size(cf.val),
                         m_patch_length |-> to_size(pl.val),
                         m_length |-> to_size(length(heap[bi]) - cl.val + pl.val)]]

CompareOps == {"==", "!=", "<", ">", "<=", ">=", "-"}

compare(op, x, y) ==
  CASE op = "==" -> op_eq(x, y)
    [] op = "!=" -> op_ne(x, y)
    [] op = "<"  -> op_lt(x, y)
    [] op = ">"  -> op_gt(x, y)
    [] op = "<=" -> op_le(x, y)
    [] op = ">=" -> op_ge(x, y)
    [] op = "-"  -> op_minus(x, y)

\* ------------------------------------------- the draft with iterator helpers
\* In this draft a text_iterator owns a helper object and is nothing but
\* that helper: an iterator is written here as the record of its helper.
\* text_iterator_helper_base keeps m_end_index and m_current_index;
\* selection_iterator_helper declares a member m_current_index of its own
\* beside the private one of its base class, written own_current_index here.

\* string_iterator_helper(end_index, current_index, current): cur is a
\* position in m_value of the text_string at address target
string_iterator_helper(target, end_index, current_index, cur) ==
  [kind |-> "string", m_end_index |-> end_index, m_current_index |-> current_index,
   m_target |-> target, m_current |-> cur]

\* selection_iterator_helper(current, current_index, length): the base class
\* is built from (length, current_index), then m_current and the member
\* m_current_index of the class itself
selection_iterator_helper(cur, current_index, len) ==
  [kind |-> "selection", m_end_index |-> len, m_current_index |-> current_index,
   m_current |-> cur, own_current_index |-> current_index]

\* string_iterator_helper::clone is the copy constructor;
\* selection_iterator_helper::clone builds a new helper from m_current (copied
\* into the parameter and again into the member), the member m_current_index
\* of the class itself, and end_index()
RECURSIVE clone(_)
clone(h) ==
  IF h.kind = "string" THEN h
  ELSE selection_iterator_helper(clone(clone(h.m_current)),
                                 h.own_current_index, h.m_end_index)

\* text_iterator(text_iterator const& it): m_helper(it.m_helper->clone())
text_iterator_copy(it) == clone(it)

\* text_iterator_helper_base::move: move_impl(d), which is m_current += d in
\* both helpers, then m_current_index += d in the base class
RECURSIVE helper_move(_, _)
helper_move(h, d) ==
  IF h.kind = "string"
  THEN [h EXCEPT !.m_current = @ + d, !.m_current_index = @ + d]
  ELSE [h EXCEPT !.m_current = helper_move(@, d), !.m_current_index = @ + d]

\* text_iterator_helper_base::diff
helper_diff(h, it) == h.m_current_index - it.m_current_index

\* operator+(int d): text_iterator t(*this); return t += d; the value
\* returned is a copy of t made after the move
helper_op_plus(it, d) == text_iterator_copy(helper_move(text_iterator_copy(it), d))

\* value(): *m_current; for a string helper that is a character of m_value,
\* and undefined behaviour outside of it
RECURSIVE value(_, _)
value(heap, h) ==
  IF h.kind = "string"
  THEN IF h.m_current >= 0 /\ h.m_current < Len(heap[h.m_target].m_value)
       THEN [out |-> "ok", val |-> heap[h.m_target].m_value[h.m_current + 1]]
       ELSE [out |-> "undefined", val |-> << >>]
  ELSE value(heap, h.m_current)

\* text_string(std::string value) of this draft: m_value is a copy
text_string_helpers(v) == [kind |-> "string", m_value |-> v]

\* length() of both classes
helpers_length(o) == IF o.kind = "string" THEN Len(o.m_value) ELSE o.m_length

\* begin_helper() and end_helper(), which cbegin() and cend() wrap; the
\* iterator handed to selection_iterator_helper is copied into the parameter
\* and again into the member
begin_helper(heap, n) ==
  IF heap[n].kind = "string"
  THEN string_iterator_helper(n, helpers_length(heap[n]), 0, 0)
  ELSE selection_iterator_helper(text_iterator_copy(text_iterator_copy(heap[n].m_start)),
                                 0, heap[n].m_length)

end_helper(heap, n) ==
  IF heap[n].kind = "string"
  THEN string_iterator_helper(n, helpers_length(heap[n]), helpers_length(heap[n]),
                              helpers_length(heap[n]))
  ELSE selection_iterator_helper(text_iterator_copy(text_iterator_copy(heap[n].m_end)),
                                 heap[n].m_length, heap[n].m_length)

cbegin(heap, n) == begin_helper(heap, n)

cend(heap, n) == end_helper(heap, n)

\* text_selection(base, int start, int end)
text_selection(heap, base, start, end_) ==
  [kind |-> "selection", m_base |-> base,
   m_start |-> helper_op_plus(cbegin(heap, base), start),
   m_end |-> helper_op_plus(cbegin(heap, base), end_),
   m_length |-> end_ - start]

\* ----------------------------------------------------------------- actions
NoCall == [op |-> "none", b |-> 0, args |-> << >>, out |-> "none", val |-> << >>]

\* what a run of undefined behaviour may do
Undefined == {"crash", "hang", "garbage"}

Init ==
  /\ bufs = << >>
  /\ strs = << >>
  /\ live = {}
  /\ last = NoCall
  /\ halted = FALSE

\* a std::string of the caller: its characters, and whether it still exists
caller_string(s) == [chars |-> s, alive |-> TRUE]

\* makeLeaf(text), while the heap holds fewer than maxb objects: the caller
\* holds text in a string of its own and hands it to text_string by reference
MakeLeaf(maxb) ==
  /\ ~halted
  /\ Len(bufs) < maxb
  /\ \E s \in Strings(Len(strs) + 1) :
       /\ strs' = Append(strs, caller_string(s))
       /\ bufs' = new_object(bufs, text_string(s, Len(strs) + 1))
       /\ live' = live \cup {Len(bufs) + 1}
       /\ last' = [op |-> "text_string", b |-> Len(bufs) + 1, args |-> <<s>>,
                   out |-> "ok", val |-> << >>]
  /\ UNCHANGED halted

\* the pairs (from, to) tried on a source of length len: every pair up to
\* MaxOver beyond the source, or the pairs the contract allows
AnyBounds(len) == (0..(len + MaxOver)) \X (0..(len + MaxOver))

ValidBounds(len) == {c \in (0..len) \X (0..len) : c[1] <= c[2]}

Bounds(which, len) == IF which = "any" THEN AnyBounds(len) ELSE ValidBounds(len)

\* makeReplacement(base, cut_from, cut_to, patch, patch_from, patch_to) on
\* two objects that exist, the cut and the patch bounds drawn from
\* Bounds(which, _).  A failed assertion aborts the program.  The constructor
\* checks nothing else: bounds in the wrong order build a rope all the same;
\* that object is kept in last.val, and the run is not followed beyond it.
MakeReplacement(maxb, which) ==
  /\ ~halted
  /\ Len(bufs) < maxb
  /\ UNCHANGED strs
  /\ \E bi \in live, pi \in live :
     \E c \in Bounds(which, length(bufs[bi])), q \in Bounds(which, length(bufs[pi])) :
       LET cf   == c[1]
           ct   == c[2]
           pf   == q[1]
           pt   == q[2]
           r    == make_rope(bufs[bi], cf, ct, bufs[pi], pf, pt)
           o    == text_replacement(r.rope, bi, bufs[bi], cf, ct, pi, pf, pt)
           call == [op |-> "text_replacement", b |-> 0, args |-> <<bi, cf, ct, pi, pf, pt>>,
                    out |-> r.out, val |-> << >>]
       IN  CASE r.out = "assert" ->
                  /\ last' = call
                  /\ halted' = TRUE
                  /\ UNCHANGED <<bufs, live>>
             [] r.out = "undefined" ->
                  /\ \E u \in Undefined : last' = [call EXCEPT !.out = u]
                  /\ halted' = TRUE
                  /\ UNCHANGED <<bufs, live>>
             [] r.out = "ok" /\ cf <= ct /\ pf <= pt ->
                  /\ bufs' = new_object(bufs, o)
                  /\ live' = live \cup {Len(bufs) + 1}
                  /\ last' = [call EXCEPT !.b = Len(bufs) + 1]
                  /\ UNCHANGED halted
             [] OTHER ->
                  /\ last' = [call EXCEPT !.val = <<o>>]
                  /\ halted' = TRUE
                  /\ UNCHANGED <<bufs, live>>

\* makeReplacement by iterators: the caller holds base.begin() + i,
\* base.begin() + j, patch.begin() + k and patch.begin() + l for bounds the
\* contract allows
MakeReplacementIt(maxb) ==
  /\ ~halted
  /\ Len(bufs) < maxb
  /\ UNCHANGED strs
  /\ \E bi \in live, pi \in live :
     \E c \in ValidBounds(length(bufs[bi])), q \in ValidBounds(length(bufs[pi])) :
       LET r    == text_replacement_it(bufs, bi,
                     op_plus_n(begin(bufs, bi), c[1]), op_plus_n(begin(bufs, bi), c[2]),
                     pi,
                     op_plus_n(begin(bufs, pi), q[1]), op_plus_n(begin(bufs, pi), q[2]))
           call == [op |-> "text_replacement_it", b |-> 0,
                    args |-> <<bi, c[1], c[2], pi, q[1], q[2]>>,
                    out |-> r.out, val |-> << >>]
       IN  IF r.out = "ok"
           THEN /\ bufs' = new_object(bufs, r.obj)
                /\ live' = live \cup {Len(bufs) + 1}
                /\ last' = [call EXCEPT !.b = Len(bufs) + 1]
                /\ UNCHANGED halted
           ELSE /\ last' = call
                /\ halted' = TRUE
                /\ UNCHANGED <<bufs, live>>

\* the iterators a caller holds: t.begin() + d for d up to MaxStep within t,
\* and t.end(), for every object t that exists
CallerIterators(heap, objs) ==
  UNION {{op_plus_n(begin(heap, t), d) : d \in 0..min(MaxStep, length(heap[t]))}
           \cup {end(heap, t)} : t \in objs}

\* makeReplacement by iterators of any objects.  Two iterators of one object
\* come in the order the contract asks for.  last.val keeps the number of
\* objects there were before the call; the run is not followed beyond a
\* call that threw.
MakeReplacementItAny(maxb) ==
  /\ ~halted
  /\ Len(bufs) < maxb
  /\ UNCHANGED strs
  /\ \E bi \in live, pi \in live :
     \E cut_from \in CallerIterators(bufs, live), cut_to \in CallerIterators(bufs, live),
        patch_from \in CallerIterators(bufs, live), patch_to \in CallerIterators(bufs, live) :
       LET r    == text_replacement_it(bufs, bi, cut_from, cut_to, pi, patch_from, patch_to)
           call == [op |-> "text_replacement_it_any", b |-> 0,
                    args |-> <<bi, cut_from, cut_to, pi, patch_from, patch_to>>,
                    out |-> r.out, val |-> <<Len(bufs)>>]
       IN  /\ cut_from.m_target = cut_to.m_target =>
                 cut_from.m_current_index <= cut_to.m_current_index
           /\ patch_from.m_target = patch_to.m_target =>
                 patch_from.m_current_index <= patch_to.m_current_index
           /\ CASE r.out = "ok" ->
                      /\ bufs' = new_object(bufs, r.obj)
                      /\ live' = live \cup {Len(bufs) + 1}
                      /\ last' = [call EXCEPT !.b = Len(bufs) + 1]
                      /\ UNCHANGED halted
                 [] OTHER ->
                      /\ last' = call
                      /\ halted' = TRUE
                      /\ UNCHANGED <<bufs, live>>

\* length(b)
Length ==
  /\ ~halted
  /\ \E b \in live :
       last' = [op |-> "length", b |-> b, args |-> << >>, out |-> "ok",
                val |-> length(bufs[b])]
  /\ UNCHANGED <<bufs, strs, live, halted>>

\* toString(b)
ToString ==
  /\ ~halted
  /\ \E b \in live :
       LET r == to_string(strs, bufs, b)
       IN  /\ r.out # "undefined"
           /\ last' = [op |-> "to_string", b |-> b, args |-> << >>, out |-> r.out,
                       val |-> r.val]
  /\ UNCHANGED <<bufs, strs, live, halted>>

\* at(b, i) of the draft with size_type offsets: the caller's i arrives as a
\* size_type
At ==
  /\ ~halted
  /\ \E b \in live :
     \E i \in (-1)..(length(bufs[b]) + MaxOver) :
       LET r    == at(strs, bufs[b], to_size(i))
           call == [op |-> "at", b |-> b, args |-> <<i>>, out |-> r.out, val |-> r.val]
       IN  IF r.out = "undefined"
           THEN /\ \E u \in Undefined : last' = [call EXCEPT !.out = u]
                /\ halted' = TRUE
           ELSE /\ last' = call
                /\ UNCHANGED halted
  /\ UNCHANGED <<bufs, strs, live>>

\* at(b, i) of the draft with int offsets
AtInt ==
  /\ ~halted
  /\ \E b \in live :
     \E i \in (-1)..(length(bufs[b]) + MaxOver) :
       LET r    == at_int(strs, bufs[b], i)
           call == [op |-> "at_int", b |-> b, args |-> <<i>>, out |-> r.out, val |-> r.val]
       IN  IF r.out = "undefined"
           THEN /\ \E u \in Undefined : last' = [call EXCEPT !.out = u]
                /\ halted' = TRUE
           ELSE /\ last' = call
                /\ UNCHANGED halted
  /\ UNCHANGED <<bufs, strs, live>>

\* at(b, i) of the earlier draft, which walks down the chain
AtRecursive ==
  /\ ~halted
  /\ \E b \in live :
     \E i \in (-1)..(length(bufs[b]) + MaxOver) :
       LET r == at_recursive(bufs, b, i)
       IN  last' = [op |-> "at_recursive", b |-> b, args |-> <<i>>, out |-> r.out,
                    val |-> r.val]
  /\ UNCHANGED <<bufs, strs, live, halted>>

\* length(b) of the earlier draft
LengthRecursive ==
  /\ ~halted
  /\ \E b \in live :
       last' = [op |-> "length_recursive", b |-> b, args |-> << >>, out |-> "ok",
                val |-> length_recursive(bufs[b])]
  /\ UNCHANGED <<bufs, strs, live, halted>>

\* the iterators of object b that are compared and moved: b.begin() + d for
\* d up to MaxStep, and b.end()
Positions(heap, b) ==
  {op_plus_n(begin(heap, b), d) : d \in 0..MaxStep} \cup {end(heap, b)}

\* it1 op it2 for it1 a position of b1 and it2 a position of b2
Compare ==
  /\ ~halted
  /\ \E b1 \in live, b2 \in live :
     \E it1 \in Positions(bufs, b1), it2 \in Positions(bufs, b2), op \in CompareOps :
       LET r == compare(op, it1, it2)
       IN  last' = [op |-> "compare", b |-> 0, args |-> <<op, it1, it2>>,
                    out |-> r.out, val |-> r.val]
  /\ UNCHANGED <<bufs, strs, live, halted>>

\* it + n, (it + n) - n, --(++it), ++(--it) and (it + n) - it for a position
\* it and a signed n
Move ==
  /\ ~halted
  /\ \E b \in live :
     \E it \in Positions(bufs, b), n \in (-MaxDelta)..MaxDelta :
       last' = [op |-> "move", b |-> b, args |-> <<it, n>>, out |-> "ok",
                val |-> <<op_plus_n(it, n), op_minus_n(op_plus_n(it, n), n),
                          op_dec(op_inc(it)), op_inc(op_dec(it)),
                          op_minus(op_plus_n(it, n), it)>>]
  /\ UNCHANGED <<bufs, strs, live, halted>>

\* is_begin(), is_end(), move_to_begin() and move_to_end() on b.begin() + d
Position ==
  /\ ~halted
  /\ \E b \in live :
     \E d \in (-MaxStep)..(length(bufs[b]) + MaxStep) :
       LET it == op_plus_n(begin(bufs, b), d)
       IN  last' = [op |-> "position", b |-> b, args |-> <<it>>, out |-> "ok",
                    val |-> <<is_begin(it), is_end(bufs, it),
                              move_to_begin(it), move_to_end(bufs, it)>>]
  /\ UNCHANGED <<bufs, strs, live, halted>>

\* *it and it[d] for it = b.begin() + k, also before the begin and past the
\* end, and a signed d
Deref ==
  /\ ~halted
  /\ \E b \in live :
     \E k \in (-MaxStep)..(length(bufs[b]) + MaxStep), d \in (-MaxDelta)..MaxDelta :
       LET it == op_plus_n(begin(bufs, b), k)
           r  == op_deref(strs, bufs, it)
           x  == op_index(strs, bufs, it, d)
       IN  /\ r.out # "undefined" /\ x.res.out # "undefined"
           /\ last' = [op |-> "deref", b |-> b, args |-> <<it, d>>, out |-> r.out,
                       val |-> <<r.val, x.res, x.it>>]
  /\ UNCHANGED <<bufs, strs, live, halted>>

\* text_string(value) of the draft with iterator helpers
MakeStringHelpers ==
  /\ ~halted
  /\ Len(bufs) < MaxBufs
  /\ \E v \in Strings(Len(bufs) + 1) :
       /\ bufs' = new_object(bufs, text_string_helpers(v))
       /\ live' = live \cup {Len(bufs) + 1}
       /\ last' = [op |-> "text_string", b |-> Len(bufs) + 1, args |-> <<v>>,
                   out |-> "ok", val |-> << >>]
  /\ UNCHANGED <<strs, halted>>

\* text_selection(base, start, end) for 0 <= start <= end <= base->length()
MakeSelection ==
  /\ ~halted
  /\ Len(bufs) < MaxBufs
  /\ \E base \in live :
     \E c \in ValidBounds(helpers_length(bufs[base])) :
       /\ bufs' = new_object(bufs, text_selection(bufs, base, c[1], c[2]))
       /\ live' = live \cup {Len(bufs) + 1}
       /\ last' = [op |-> "text_selection", b |-> Len(bufs) + 1,
                   args |-> <<base, c[1], c[2]>>, out |-> "ok", val |-> << >>]
  /\ UNCHANGED <<strs, halted>>

\* For an object s and 0 <= n <= length(s): it = s.cbegin() moved n steps in
\* place, and a copy of it; s.cbegin() + n against s.cbegin() and s.cend().
\* last.val holds current_index() of it and of the copy, the characters both
\* denote (n < length), (s.cbegin() + n) - s.cbegin(), and whether
\* s.cbegin() + n == s.cend().
IterateHelpers ==
  /\ ~halted
  /\ \E s \in live :
     \E n \in 0..helpers_length(bufs[s]) :
       LET it   == helper_move(cbegin(bufs, s), n)
           copy == text_iterator_copy(it)
           sum  == helper_op_plus(cbegin(bufs, s), n)
           read == IF n < helpers_length(bufs[s])
                   THEN <<value(bufs, it), value(bufs, copy)>>
                   ELSE << >>
       IN  last' = [op |-> "iterate", b |-> s, args |-> <<n>>, out |-> "ok",
                    val |-> <<it.m_current_index, copy.m_current_index, read,
                              helper_diff(sum, cbegin(bufs, s)),
                              helper_diff(sum, cend(bufs, s)) = 0>>]
  /\ UNCHANGED <<bufs, strs, live, halted>>

\* The destructor of a text object.  No class declares one and nothing counts
\* references: m_base is a plain pointer, and the patch is held only as the
\* target of the iterator m_patch_begin, so any object can be destroyed
\* whatever still points to it.  Its record stays in bufs for the pointers
\* that still name it; live no longer contains it.
DestroyObject ==
  /\ ~halted
  /\ \E n \in live :
       /\ live' = live \ {n}
       /\ last' = [op |-> "destroy", b |-> n, args |-> << >>, out |-> "ok", val |-> << >>]
  /\ UNCHANGED <<bufs, strs, halted>>

\* The string handed to text_string(TString const& value) belongs to the
\* caller: it ends when the caller's scope does (at the end of the statement
\* for a temporary)
DestroyString ==
  /\ ~halted
  /\ \E k \in 1..Len(strs) :
       /\ strs[k].alive
       /\ strs' = [strs EXCEPT ![k].alive = FALSE]
       /\ last' = [op |-> "string_destroyed", b |-> 0, args |-> <<k>>, out |-> "ok",
                   val |-> << >>]
  /\ UNCHANGED <<bufs, live, halted>>

\* the character the caller writes into a string of its own
Written == Char(0, 0)

\* ... and the caller may write into it in place
ChangeString ==
  /\ ~halted
  /\ \E k \in 1..Len(strs) :
     \E j \in 1..Len(strs[k].chars) :
       /\ strs[k].alive
       /\ strs[k].chars[j] # Written
       /\ strs' = [strs EXCEPT ![k].chars[j] = Written]
       /\ last' = [op |-> "string_changed", b |-> 0, args |-> <<k, j>>, out |-> "ok",
                   val |-> << >>]
  /\ UNCHANGED <<bufs, live, halted>>

\* building by the contract and reading whole objects
Next ==
  \/ MakeLeaf(MaxBufs)
  \/ MakeReplacement(MaxBufs, "valid")
  \/ Length
  \/ ToString

Spec == Init /\ [][Next]_vars

\* building with any bounds
NextBounds ==
  \/ MakeLeaf(MaxBufs)
  \/ MakeReplacement(MaxBufs, "any")

SpecBounds == Init /\ [][NextBounds]_vars

\* building by the contract and reading single characters
NextAt ==
  \/ MakeLeaf(MaxReadBufs)
  \/ MakeReplacement(MaxReadBufs, "valid")
  \/ At
  \/ AtInt

SpecAt == Init /\ [][NextAt]_vars

\* building by the contract, comparing and moving iterators
NextIter ==
  \/ MakeLeaf(MaxReadBufs)
  \/ MakeReplacement(MaxReadBufs, "valid")
  \/ Compare
  \/ Move
  \/ Position
  \/ Deref

SpecIter == Init /\ [][NextIter]_vars

\* building by the contract through either overload
NextOverload ==
  \/ MakeLeaf(MaxBufs)
  \/ MakeReplacement(MaxBufs, "valid")
  \/ MakeReplacementIt(MaxBufs)

SpecOverload == Init /\ [][NextOverload]_vars

\* building by the contract and reading single characters, while objects
\* are destroyed and the caller's strings end or change
NextLife ==
  \/ MakeLeaf(MaxReadBufs)
  \/ MakeReplacement(MaxReadBufs, "valid")
  \/ DestroyObject
  \/ DestroyString
  \/ ChangeString
  \/ At

SpecLife == Init /\ [][NextLife]_vars

\* building by the contract and reading through the earlier draft
NextRecursive ==
  \/ MakeLeaf(MaxBufs)
  \/ MakeReplacement(MaxBufs, "valid")
  \/ AtRecursive
  \/ LengthRecursive

SpecRecursive == Init /\ [][NextRecursive]_vars

\* building by the contract, and through the iterator overload with
\* iterators of any objects
NextMismatch ==
  \/ MakeLeaf(MaxBufs)
  \/ MakeReplacement(MaxBufs, "valid")
  \/ MakeReplacementItAny(MaxBufs)

SpecMismatch == Init /\ [][NextMismatch]_vars

\* the draft with iterator helpers: strings, selections and their iterators
NextHelpers ==
  \/ MakeStringHelpers
  \/ MakeSelection
  \/ IterateHelpers

SpecHelpers == Init /\ [][NextHelpers]_vars

\* ------------------------------------------------- the arguments of an edit
\* The members of a text_replacement give back the arguments it was built
\* from: m_prefix_length is cut_from, m_postfix_begin is base.begin() + cut_to,
\* m_patch_begin is patch.begin() + patch_from, m_patch_length is
\* patch_to - patch_from.
Replacements == {n \in 1..Len(bufs) : bufs[n].kind = "replacement"}

cut_from_of(r) == r.m_prefix_length

cut_to_of(r) == r.m_postfix_begin

patch_from_of(r) == r.m_patch_begin

patch_to_of(r) == r.m_patch_begin + r.m_patch_length

\* s[from : to] of a plain string, 0-based and half open
Slice(s, from, to) == SubSeq(s, from + 1, to)

\* the edits of a chain applied to plain strings
RECURSIVE PlainText(_, _)
PlainText(heap, n) ==
  IF heap[n].kind = "string" THEN heap[n].m_value
  ELSE LET r == heap[n]
           b == PlainText(heap, r.m_base)
           p == PlainText(heap, r.m_patch)
       IN  Slice(b, 0, cut_from_of(r)) \o Slice(p, patch_from_of(r), patch_to_of(r))
             \o Slice(b, cut_to_of(r), Len(b))

\* the length of the string_segment of a rope node
seg_len(x) == x.e - x.b

\* the offset at which a rope node begins
begin_offset_of(x) == x.eo - seg_len(x)

RECURSIVE SumLen(_)
SumLen(m) == IF m = << >> THEN 0 ELSE seg_len(Head(m)) + SumLen(Tail(m))

\* a node of the base or the patch that a cut or patch bound falls strictly
\* inside
Straddles(x, k) == begin_offset_of(x) < k /\ k < x.eo

\* ------------------------------------------------------------------ claims
\* C1: for r = makeReplacement(b, i, j, p, k, l) with valid bounds, b and p
\* leaves or replacements themselves, toString(r) read through the rope is
\* toString(b)[0:i] + toString(p)[k:l] + toString(b)[j:], and so equals the
\* same edits applied to plain strings.
C1_ReplacementContent ==
  \A n \in Replacements :
    LET r  == bufs[n]
        sr == to_string(strs, bufs, n)
        sb == to_string(strs, bufs, r.m_base)
        sp == to_string(strs, bufs, r.m_patch)
    IN  /\ sr.out = "ok" /\ sb.out = "ok" /\ sp.out = "ok"
        /\ sr.val = Slice(sb.val, 0, cut_from_of(r))
                      \o Slice(sp.val, patch_from_of(r), patch_to_of(r))
                      \o Slice(sb.val, cut_to_of(r), Len(sb.val))
        /\ sr.val = PlainText(bufs, n)

\* a replacement of a replacement, both bounds of the cut strictly inside
\* nodes of a base with several nodes, the patch slice cut out of the middle
C1_Witness ==
  \E n \in Replacements :
    LET r == bufs[n]
        m == bufs[r.m_base].m_rope
    IN  /\ bufs[r.m_base].kind = "replacement"
        /\ Len(m) >= 2
        /\ \E x \in 1..Len(m) : Straddles(m[x], cut_from_of(r))
        /\ \E x \in 1..Len(m) : Straddles(m[x], cut_to_of(r))
        /\ patch_from_of(r) > 0 /\ patch_from_of(r) < patch_to_of(r)
        /\ patch_to_of(r) < length(bufs[r.m_patch])
        /\ last.op = "to_string" /\ last.b = n /\ last.out = "ok"
        /\ last.val = PlainText(bufs, n)

\* C2: length(r) read from the rope (the key of the last node, 0 for an
\* empty rope) is length(b) - (j - i) + (l - k) and agrees with m_length.
C2_ReplacementLength ==
  \A n \in Replacements :
    LET r == bufs[n]
    IN  /\ length(r) = length(bufs[r.m_base]) - (cut_to_of(r) - cut_from_of(r))
                         + (patch_to_of(r) - patch_from_of(r))
        /\ length(r) = r.m_length

\* the heap holds a replacement with an empty postfix, one with an empty
\* patch slice and one of length 0, and length() was called on the last
C2_Witness ==
  /\ \E n \in Replacements :
       cut_to_of(bufs[n]) = length(bufs[bufs[n].m_base]) /\ length(bufs[n]) > 0
  /\ \E n \in Replacements :
       bufs[n].m_patch_length = 0 /\ length(bufs[n]) > 0
  /\ \E n \in Replacements :
       /\ length(bufs[bufs[n].m_base]) > 0 /\ length(bufs[n]) = 0
       /\ last.op = "length" /\ last.b = n /\ last.val = 0

\* the rope m is a partition of [0, len)
Partition(m, len) ==
  /\ \A k \in 1..Len(m) :
       /\ k > 1 => m[k - 1].eo < m[k].eo
       /\ begin_offset_of(m[k]) = (IF k = 1 THEN 0 ELSE m[k - 1].eo)
       /\ seg_len(m[k]) >= 0
  /\ SumLen(m) = len

\* C3: after any sequence of makeLeaf and makeReplacement with valid bounds
\* every rope has strictly increasing keys and its nodes tile [0, length):
\* each node begins where the one before ends, the first at 0, and the
\* segment lengths add up to length.
C3_RopePartition ==
  \A n \in 1..Len(bufs) : Partition(bufs[n].m_rope, length(bufs[n]))

\* a replacement of a replacement whose rope has three nodes or more
C3_Witness ==
  \E n \in Replacements :
    /\ bufs[bufs[n].m_base].kind = "replacement"
    /\ Len(bufs[n].m_rope) >= 3
    /\ last.op = "text_replacement" /\ last.b = n

\* C4: the rope built by makeReplacement holds no node of length zero.
C4_NoEmptyNode ==
  \A n \in Replacements :
    \A k \in 1..Len(bufs[n].m_rope) : seg_len(bufs[n].m_rope[k]) # 0

\* C5: objects are immutable: no call, a further replacement or a read,
\* changes the rope, the length or the content of an object built before.
C5_Immutable ==
  [][\A n \in 1..Len(bufs) :
       /\ n <= Len(bufs')
       /\ bufs'[n] = bufs[n]
       /\ length(bufs'[n]) = length(bufs[n])
       /\ to_string(strs', bufs', n) = to_string(strs, bufs, n)]_vars

\* base and patch of a replacement that was itself used as a base, after a
\* read of the first object
C5_Witness ==
  /\ Len(bufs) = 3
  /\ bufs[2].kind = "replacement" /\ bufs[3].kind = "replacement"
  /\ bufs[3].m_base = 2 /\ bufs[2].m_base = 1
  /\ length(bufs[1]) = 2 /\ length(bufs[3]) # length(bufs[2])
  /\ last.op = "to_string" /\ last.b = 1

\* the bounds of the last makeReplacement call
LastCut == IF last.op = "text_replacement"
           THEN [base |-> last.args[1], from |-> last.args[2], to |-> last.args[3],
                 patch |-> last.args[4], pfrom |-> last.args[5], pto |-> last.args[6]]
           ELSE [base |-> 0, from |-> 0, to |-> 0, patch |-> 0, pfrom |-> 0, pto |-> 0]

LastInRange ==
  /\ last.op = "text_replacement"
  /\ LastCut.from <= length(bufs[LastCut.base]) /\ LastCut.to <= length(bufs[LastCut.base])
  /\ LastCut.pfrom <= length(bufs[LastCut.patch]) /\ LastCut.pto <= length(bufs[LastCut.patch])

\* C8: makeReplacement with cut_from > cut_to or patch_from > patch_to, each
\* bound within its source, fails with PreconditionViolation and builds no
\* object.
C8_WrongOrderFails ==
  (LastInRange /\ (LastCut.from > LastCut.to \/ LastCut.pfrom > LastCut.pto))
    => (last.out = "precondition_violation" /\ last.b = 0 /\ last.val = << >>)

\* C9: makeReplacement with a bound greater than the length of its source is
\* fatal: the assertion fails before any node is computed, no object is
\* built and the run ends.
C9_OutOfRangeFatal ==
  (last.op = "text_replacement" /\ ~LastInRange)
    => (last.out = "assert" /\ last.b = 0 /\ last.val = << >> /\ halted)

\* the call failed on patch_to alone
C9_Witness ==
  /\ last.op = "text_replacement" /\ last.out = "assert" /\ halted
  /\ LastCut.from <= LastCut.to /\ LastCut.to <= length(bufs[LastCut.base])
  /\ LastCut.pfrom <= length(bufs[LastCut.patch])
  /\ LastCut.pto > length(bufs[LastCut.patch])
  /\ bufs[LastCut.patch].kind = "replacement"

\* C6: at(b, i) raises OutOfRange for every object b, empty ones included,
\* and every i >= length(b), and returns no character.
C6_AtBeyondEndThrows ==
  (last.op \in {"at", "at_int"} /\ last.args[1] >= length(bufs[last.b]))
    => (last.out = "text_out_of_range" /\ last.val = <<last.args[1], length(bufs[last.b])>>)

\* at(b, length(b)) on a replacement whose rope has several nodes, in the
\* draft with size_type offsets
C6_Witness ==
  /\ last.op = "at" /\ last.b \in Replacements
  /\ Len(bufs[last.b].m_rope) >= 2
  /\ last.args[1] = length(bufs[last.b])
  /\ last.out = "text_out_of_range"

\* C7: at(b, i) with i < 0 raises OutOfRange for every object b (the draft
\* with int offsets).
C7_AtNegativeThrows ==
  (last.op = "at_int" /\ last.args[1] < 0) => last.out = "text_out_of_range"

\* C10: each of ==, !=, <, >, <=, >= and it1 - it2 raises IteratorMismatch
\* when the two iterators come from different objects, whatever their
\* indices, and none of them raises between iterators of the same object.
C10_MismatchIffOtherTarget ==
  last.op = "compare" =>
    LET it1 == last.args[2]
        it2 == last.args[3]
    IN  IF it1.m_target # it2.m_target
        THEN last.out = "iterator_mismatch"
        ELSE last.out = "ok"

\* >= between an iterator of a replacement and one of its own base at the
\* same index
C10_Witness ==
  /\ last.op = "compare" /\ last.args[1] = ">="
  /\ last.args[2].m_target \in Replacements
  /\ last.args[3].m_target = bufs[last.args[2].m_target].m_base
  /\ last.args[2].m_current_index = last.args[3].m_current_index
  /\ last.out = "iterator_mismatch"

\* the text_string objects on the heap
Leaves == {n \in 1..Len(bufs) : bufs[n].kind = "string"}

\* C11: for a leaf built from any string s, the empty one included,
\* toString(leaf(s)) read through the rope of the leaf is s and
\* length(leaf(s)) is the length of s.
C11_LeafContent ==
  /\ \A n \in Leaves :
       /\ to_string(strs, bufs, n) = [out |-> "ok", val |-> bufs[n].m_value]
       /\ length(bufs[n]) = Len(bufs[n].m_value)
  /\ (last.op = "text_string")
       => /\ bufs[last.b].m_value = last.args[1]
          /\ to_string(strs, bufs, last.b).val = last.args[1]
          /\ length(bufs[last.b]) = Len(last.args[1])

\* an empty leaf and a leaf of the greatest length, the second one read
C11_Witness ==
  /\ \E n \in Leaves : bufs[n].m_value = << >> /\ bufs[n].m_rope = << >>
  /\ last.op = "to_string" /\ last.b \in Leaves /\ last.out = "ok"
  /\ Len(last.val) = MaxStrLen /\ last.val = bufs[last.b].m_value

\* makeReplacement(b, i, i, patch, 0, 0): nothing cut, nothing put in
EmptyEdit(r) ==
  /\ cut_from_of(r) = cut_to_of(r)
  /\ patch_from_of(r) = 0 /\ patch_to_of(r) = 0

\* C12: an empty replacement is a content no-op: for every b, every i in
\* [0, length(b)] and every patch, toString(makeReplacement(b, i, i, patch,
\* 0, 0)) is toString(b) and the length is that of b.
C12_EmptyReplacementNoOp ==
  \A n \in Replacements :
    EmptyEdit(bufs[n]) =>
      LET sr == to_string(strs, bufs, n)
          sb == to_string(strs, bufs, bufs[n].m_base)
      IN  /\ sr.out = "ok" /\ sb.out = "ok"
          /\ sr.val = sb.val
          /\ length(bufs[n]) = length(bufs[bufs[n].m_base])

\* an empty replacement at i = 0 of a non-empty base, and on top of it one
\* strictly inside its base with a non-empty patch, read by toString
C12_Witness ==
  \E n \in Replacements, k \in Replacements :
    /\ EmptyEdit(bufs[k]) /\ cut_from_of(bufs[k]) = 0
    /\ bufs[n].m_base = k /\ EmptyEdit(bufs[n])
    /\ 0 < cut_from_of(bufs[n]) /\ cut_from_of(bufs[n]) < length(bufs[k])
    /\ length(bufs[bufs[n].m_patch]) > 0
    /\ last.op = "to_string" /\ last.b = n /\ last.out = "ok"
    /\ last.val = PlainText(bufs, k)

\* C13: for every object b built by any chain of valid replacements
\* toString(b) ends without OutOfRange and length(toString(b)) is length(b):
\* the walk from begin() to end() reads the indices 0 .. length(b) - 1, and
\* each of them lies below the key of some rope node.
C13_ToStringLength ==
  /\ \A n \in 1..Len(bufs) :
       LET s == to_string(strs, bufs, n)
       IN  /\ s.out = "ok"
           /\ Len(s.val) = length(bufs[n])
           /\ \A i \in 0..(length(bufs[n]) - 1) :
                upper_bound(bufs[n].m_rope, i) # Len(bufs[n].m_rope) + 1
  /\ (last.op = "to_string")
       => (last.out = "ok" /\ Len(last.val) = length(bufs[last.b]))

\* toString of a replacement of a replacement, three characters or more
\* read through three rope nodes or more
C13_Witness ==
  /\ last.op = "to_string" /\ last.out = "ok"
  /\ last.b \in Replacements /\ bufs[last.b].m_base \in Replacements
  /\ Len(bufs[last.b].m_rope) >= 3
  /\ Len(last.val) >= 3 /\ Len(last.val) = length(bufs[last.b])

\* C14: iterator movement round-trips: for every iterator it and signed n,
\* moves below index 0 and above length() included, (it + n) - n == it,
\* ++ followed by -- (and -- by ++) gives it back, no movement raises an
\* error and none changes the object the iterator belongs to.
C14_MoveRoundTrip ==
  last.op = "move" =>
    LET it   == last.args[1]
        n    == last.args[2]
        fwd  == last.val[1]
        back == last.val[2]
    IN  /\ last.out = "ok"
        /\ fwd.m_target = it.m_target /\ back.m_target = it.m_target
        /\ to_diff(fwd.m_current_index - it.m_current_index) = n
        /\ back = it
        /\ op_eq(back, it) = [out |-> "ok", val |-> TRUE]
        /\ last.val[3] = it /\ last.val[4] = it

\* b.begin() - MaxDelta and back on a replacement, the index below 0 in
\* between
C14_Witness ==
  /\ last.op = "move" /\ last.b \in Replacements
  /\ last.args[1] = begin(bufs, last.b) /\ last.args[2] = -MaxDelta
  /\ to_diff(last.val[1].m_current_index) < 0
  /\ last.val[2] = last.args[1]

\* C15: for two iterators of the same object it1 - it2 is the difference of
\* their indices, so (it + n) - it == n and b.end() - b.begin() ==
\* length(b); it1 == it2 exactly when the indices are equal and it1 < it2
\* exactly when index(it1) < index(it2).
C15_DiffIsIndexDifference ==
  /\ \A b \in 1..Len(bufs) :
       op_minus(end(bufs, b), begin(bufs, b)) = [out |-> "ok", val |-> length(bufs[b])]
  /\ (last.op = "move") => (last.val[5] = [out |-> "ok", val |-> last.args[2]])
  /\ (last.op = "compare" /\ last.args[2].m_target = last.args[3].m_target) =>
       LET op == last.args[1]
           i1 == last.args[2].m_current_index
           i2 == last.args[3].m_current_index
       IN  /\ last.out = "ok"
           /\ op = "-"  => last.val = i1 - i2
           /\ op = "==" => last.val = (i1 = i2)
           /\ op = "<"  => last.val = (i1 < i2)
           /\ op = "!=" => last.val = (i1 # i2)
           /\ op = ">"  => last.val = (i1 > i2)
           /\ op = "<=" => last.val = (i1 <= i2)
           /\ op = ">=" => last.val = (i1 >= i2)

\* (b.begin() + 1) - b.end() on a replacement of length 3 or more
C15_Witness ==
  /\ last.op = "compare" /\ last.args[1] = "-"
  /\ last.args[2].m_target \in Replacements
  /\ last.args[2] = op_plus_n(begin(bufs, last.args[2].m_target), 1)
  /\ last.args[3] = end(bufs, last.args[2].m_target)
  /\ last.out = "ok" /\ last.val <= -2
  /\ last.val = 1 - length(bufs[last.args[2].m_target])

\* C16: begin() is at index 0 and end() at index length(b); is_begin() is
\* true exactly at index 0 and is_end() exactly at index length(b); on an
\* empty object begin() == end() and both hold; move_to_begin and
\* move_to_end bring any iterator of b to begin() and end().
C16_BeginEndPositions ==
  /\ \A b \in 1..Len(bufs) :
       /\ begin(bufs, b) = [m_target |-> b, m_current_index |-> 0]
       /\ end(bufs, b) = [m_target |-> b, m_current_index |-> length(bufs[b])]
       /\ is_begin(begin(bufs, b)) /\ is_end(bufs, end(bufs, b))
       /\ length(bufs[b]) = 0 =>
            /\ op_eq(begin(bufs, b), end(bufs, b)) = [out |-> "ok", val |-> TRUE]
            /\ is_end(bufs, begin(bufs, b)) /\ is_begin(end(bufs, b))
  /\ (last.op = "position") =>
       LET it == last.args[1]
       IN  /\ last.val[1] <=> (it.m_current_index = 0)
           /\ last.val[2] <=> (it.m_current_index = length(bufs[it.m_target]))
           /\ last.val[3] = begin(bufs, it.m_target)
           /\ last.val[4] = end(bufs, it.m_target)

\* the predicates on begin() of a replacement that cut everything out of a
\* non-empty base: both hold
C16_Witness ==
  /\ last.op = "position" /\ last.b \in Replacements
  /\ length(bufs[bufs[last.b].m_base]) > 0 /\ length(bufs[last.b]) = 0
  /\ last.args[1] = begin(bufs, last.b)
  /\ last.val[1] /\ last.val[2]

\* C17: in any sequence of creations and destructions a live replacement
\* keeps its base and its patch alive, and so every leaf it descends from:
\* no rope node of a live object refers to storage that has been destroyed.
C17_KeepsAncestorsAlive ==
  \A n \in live :
    /\ bufs[n].kind = "replacement" => (bufs[n].m_base \in live /\ bufs[n].m_patch \in live)
    /\ \A k \in 1..Len(bufs[n].m_rope) : strs[bufs[n].m_rope[k].own].alive

\* C18: the rope of a leaf refers to characters the leaf itself owns, not to
\* the string given to the constructor: at() on the leaf and on every object
\* derived from it stays valid, and returns the character of the text,
\* after the caller's string is destroyed or changed.
C18_LeafOwnsStorage ==
  /\ \A n \in Leaves :
       \A k \in 1..Len(bufs[n].m_rope) :
         LET x == bufs[n].m_rope[k]
         IN  \A pos \in x.b..(x.e - 1) :
               deref(strs, x.own, pos) = [out |-> "ok", val |-> bufs[n].m_value[pos + 1]]
  /\ (last.op = "at" /\ last.args[1] >= 0 /\ last.args[1] < length(bufs[last.b]))
       => (last.out = "ok" /\ last.val = PlainText(bufs, last.b)[last.args[1] + 1])

\* C19: the iterator overload of makeReplacement, given base.begin() + i,
\* base.begin() + j, patch.begin() + k and patch.begin() + l, builds the
\* same rope, the same length and the same content as
\* makeReplacement(base, i, j, patch, k, l).
C19_OverloadsAgree ==
  last.op = "text_replacement_it" =>
    LET a == last.args
        r == make_rope(bufs[a[1]], a[2], a[3], bufs[a[4]], a[5], a[6])
        o == text_replacement(r.rope, a[1], bufs[a[1]], a[2], a[3], a[4], a[5], a[6])
    IN  /\ last.out = "ok" /\ r.out = "ok"
        /\ bufs[last.b].m_rope = o.m_rope
        /\ length(bufs[last.b]) = length(o)
        /\ bufs[last.b] = o
        /\ to_string(strs, bufs, last.b) = [out |-> "ok", val |-> PlainText(bufs, last.b)]

\* the iterator overload on a base that is a replacement, with a cut and a
\* patch slice that are not empty, the rope of three nodes or more
C19_Witness ==
  /\ last.op = "text_replacement_it" /\ last.out = "ok"
  /\ last.args[1] \in Replacements
  /\ last.args[2] > 0 /\ last.args[2] < last.args[3]
  /\ last.args[5] < last.args[6]
  /\ Len(bufs[last.b].m_rope) >= 3

\* rope node x covers offset i
Covers(x, i) == begin_offset_of(x) <= i /\ i < x.eo

\* C20: for every object b built by valid operations and every index
\* 0 <= i < length(b), the node at(i) selects as the first with end offset
\* > i is the only node whose range contains i, and the position returned,
\* segment end - (end offset - i), lies inside the segment of that node and
\* holds the character toString(b)[i].
C20_AtSelectsCoveringNode ==
  (last.op \in {"at", "at_int"} /\ last.args[1] >= 0 /\ last.args[1] < length(bufs[last.b])) =>
    LET i   == last.args[1]
        m   == bufs[last.b].m_rope
        k   == upper_bound(m, i)
        x   == m[k]
        pos == x.e - (x.eo - i)
    IN  /\ k <= Len(m)
        /\ Covers(x, i)
        /\ \A j \in 1..Len(m) : Covers(m[j], i) => j = k
        /\ x.b <= pos /\ pos < x.e
        /\ last.out = "ok"
        /\ last.val = strs[x.own].chars[pos + 1]
        /\ last.val = to_string(strs, bufs, last.b).val[i + 1]
        /\ last.val = PlainText(bufs, last.b)[i + 1]

\* at(i) on a replacement with three nodes or more, i inside a node that is
\* neither the first nor the last, behind a cut that split a node
C20_Witness ==
  /\ last.op = "at" /\ last.out = "ok" /\ last.b \in Replacements
  /\ Len(bufs[last.b].m_rope) >= 3
  /\ upper_bound(bufs[last.b].m_rope, last.args[1]) > 1
  /\ upper_bound(bufs[last.b].m_rope, last.args[1]) < Len(bufs[last.b].m_rope)
  /\ last.val = PlainText(bufs, last.b)[last.args[1] + 1]

\* the nodes of a rope, as a set
Nodes(m) == {m[k] : k \in 1..Len(m)}

\* C21: prefix step of makeReplacement: every node of the rope of the base
\* with end offset <= cut_from is in the result with the same end offset and
\* the same segment, and a node that straddles cut_from is in the result
\* once, with end offset cut_from, its segment shortened at the end by
\* (end offset - cut_from) and its begin unchanged.
C21_PrefixStep ==
  \A n \in Replacements :
    LET r  == bufs[n]
        mb == bufs[r.m_base].m_rope
        cf == cut_from_of(r)
    IN  \A x \in Nodes(mb) :
          /\ x.eo <= cf => x \in Nodes(r.m_rope)
          /\ Straddles(x, cf) =>
                /\ rope_node(cf, x.own, x.b, x.e - (x.eo - cf)) \in Nodes(r.m_rope)
                /\ Cardinality({y \in Nodes(r.m_rope) : y.own = x.own /\ y.b = x.b
                                   /\ begin_offset_of(y) = begin_offset_of(x)}) = 1

\* the same for the nodes of the base that are not empty
C21_PrefixStepNonEmpty ==
  \A n \in Replacements :
    LET r  == bufs[n]
        mb == bufs[r.m_base].m_rope
        cf == cut_from_of(r)
    IN  \A x \in Nodes(mb) :
          /\ (x.eo <= cf /\ seg_len(x) > 0) => x \in Nodes(r.m_rope)
          /\ Straddles(x, cf) =>
                /\ rope_node(cf, x.own, x.b, x.e - (x.eo - cf)) \in Nodes(r.m_rope)
                /\ Cardinality({y \in Nodes(r.m_rope) : y.own = x.own /\ y.b = x.b
                                   /\ begin_offset_of(y) = begin_offset_of(x)}) = 1

\* rope node x has a position in [from, to)
Overlaps(x, from, to) == max(begin_offset_of(x), from) < min(x.eo, to)

\* the segment of x restricted to the offsets [from, to), with end offset eo
Restricted(x, from, to, eo) ==
  rope_node(eo, x.own, x.b + max(0, from - begin_offset_of(x)),
            x.e - max(0, x.eo - to))

\* C22: patch-slice step of makeReplacement: for every node of the rope of
\* the patch that overlaps [patch_from, patch_to) the result holds a node
\* whose segment is that node's restricted to [patch_from, patch_to) and
\* whose end offset is min(end offset, patch_to) + (cut_from - patch_from);
\* the first of these begins at cut_from and the last ends at
\* cut_from + (patch_to - patch_from).
C22_PatchStep ==
  \A n \in Replacements :
    LET r   == bufs[n]
        mp  == bufs[r.m_patch].m_rope
        cf  == cut_from_of(r)
        pf  == patch_from_of(r)
        pt  == patch_to_of(r)
        new == {Restricted(x, pf, pt, min(x.eo, pt) + (cf - pf)) :
                  x \in {x \in Nodes(mp) : Overlaps(x, pf, pt)}}
    IN  /\ new \subseteq Nodes(r.m_rope)
        /\ new # {} =>
              /\ \E y \in new : begin_offset_of(y) = cf /\ \A z \in new : y.eo <= z.eo
              /\ \E y \in new : y.eo = cf + (pt - pf) /\ \A z \in new : z.eo <= y.eo

\* a patch slice that begins inside one node of the patch and ends inside
\* another, put in behind a prefix that is not empty
C22_Witness ==
  \E n \in Replacements :
    LET r  == bufs[n]
        mp == bufs[r.m_patch].m_rope
    IN  /\ cut_from_of(r) > 0
        /\ \E x \in Nodes(mp), y \in Nodes(mp) :
              /\ x # y
              /\ Straddles(x, patch_from_of(r)) /\ Straddles(y, patch_to_of(r))
        /\ last.op = "text_replacement" /\ last.b = n

\* C23: postfix step of makeReplacement: for every node of the rope of the
\* base with end offset > cut_to the result holds a node with end offset
\* moved by cut_from + (patch_to - patch_from) - cut_to whose segment is the
\* node's with its begin advanced by max(0, cut_to - begin offset); the
\* first of these begins at cut_from + (patch_to - patch_from); and the
\* nodes of prefix, patch slice and postfix come in that order.
C23_PostfixStep ==
  \A n \in Replacements :
    LET r   == bufs[n]
        mb  == bufs[r.m_base].m_rope
        cf  == cut_from_of(r)
        ct  == cut_to_of(r)
        pl  == patch_to_of(r) - patch_from_of(r)
        pf  == patch_from_of(r)
        pt  == patch_to_of(r)
        new == {Restricted(x, ct, x.eo, x.eo + (cf + pl - ct)) :
                  x \in {x \in Nodes(mb) : x.eo > ct}}
        pre == {Restricted(x, 0, cf, min(x.eo, cf)) :
                  x \in {x \in Nodes(mb) : Overlaps(x, 0, cf)}}
        pat == {Restricted(x, pf, pt, min(x.eo, pt) + (cf - pf)) :
                  x \in {x \in Nodes(bufs[r.m_patch].m_rope) : Overlaps(x, pf, pt)}}
    IN  /\ new \subseteq Nodes(r.m_rope)
        /\ new # {} =>
              \E y \in new : begin_offset_of(y) = cf + pl /\ \A z \in new : y.eo <= z.eo
        /\ \A k \in 1..Len(r.m_rope) : \A j \in 1..(k - 1) :
              /\ r.m_rope[j] \in new => r.m_rope[k] \in new
              /\ r.m_rope[j] \in pat => r.m_rope[k] \in (pat \cup new)
              /\ r.m_rope[k] \in pre => r.m_rope[j] \notin (pat \cup new)

\* a cut that ends inside a node of a base of several nodes, behind a prefix
\* and a patch slice that are not empty
C23_Witness ==
  \E n \in Replacements :
    LET r  == bufs[n]
        mb == bufs[r.m_base].m_rope
    IN  /\ cut_from_of(r) > 0 /\ cut_from_of(r) < cut_to_of(r)
        /\ patch_from_of(r) < patch_to_of(r)
        /\ \E x \in Nodes(mb) : Straddles(x, cut_to_of(r)) /\ x.eo < length(bufs[r.m_base])
        /\ last.op = "text_replacement" /\ last.b = n

\* rope node y is a part of rope node x: the same string, begin not
\* earlier, end not later
SubRange(y, x) == y.own = x.own /\ x.b <= y.b /\ y.b <= y.e /\ y.e <= x.e

\* C24: structural sharing: the segment of every node of the rope of a
\* replacement is a part of the segment of a node of the rope of its base
\* or of its patch, so after any chain of replacements every segment still
\* lies in the characters the rope of an original leaf refers to: no
\* character is copied.
C24_StructuralSharing ==
  /\ \A n \in Replacements :
       \A y \in Nodes(bufs[n].m_rope) :
         \E x \in Nodes(bufs[bufs[n].m_base].m_rope) \cup Nodes(bufs[bufs[n].m_patch].m_rope) :
           SubRange(y, x)
  /\ \A n \in 1..Len(bufs) :
       \A y \in Nodes(bufs[n].m_rope) :
         /\ \E l \in Leaves : \E x \in Nodes(bufs[l].m_rope) : SubRange(y, x)
         /\ y.own \in 1..Len(strs) /\ 0 <= y.b /\ y.e <= Len(strs[y.own].chars)

\* a replacement of a replacement holding a node narrowed at its begin and
\* a node narrowed at its end
C24_Witness ==
  \E n \in Replacements :
    /\ bufs[n].m_base \in Replacements
    /\ \E y \in Nodes(bufs[n].m_rope), z \in Nodes(bufs[n].m_rope) :
          \E l \in Leaves : \E x \in Nodes(bufs[l].m_rope) :
            /\ SubRange(y, x) /\ x.b < y.b /\ y.b < y.e
            /\ SubRange(z, x) /\ z.e < x.e /\ z.b < z.e
    /\ last.op = "text_replacement" /\ last.b = n

\* C25: the rope and the recursive walk agree: for every chain of leaves
\* and replacements built with valid bounds and every index i with
\* 0 <= i < length, at(i) through the rope returns the character that the
\* three-way dispatch of the earlier draft returns, and length() of the rope
\* is the length that draft keeps.
C25_DesignsAgree ==
  /\ last.op = "at_recursive" /\ last.args[1] >= 0 /\ last.args[1] < length(bufs[last.b]) =>
       /\ last.out = "ok"
       /\ at(strs, bufs[last.b], to_size(last.args[1])) = [out |-> "ok", val |-> last.val]
  /\ last.op = "length_recursive" => last.val = length(bufs[last.b])

\* the walk went two levels down, through the patch of a replacement whose
\* patch slice does not begin at the begin of the patch
C25_Witness ==
  /\ last.op = "at_recursive" /\ last.out = "ok"
  /\ last.b \in Replacements
  /\ LET o == bufs[last.b]
         c == current(o, last.args[1])
     IN  /\ c.m_target = o.m_patch /\ o.m_patch \in Replacements
         /\ o.m_patch_begin > 0 /\ o.m_prefix_length > 0
         /\ bufs[o.m_patch].m_rope # bufs[bufs[o.m_patch].m_base].m_rope

\* C26: dereferencing an iterator is at(absolute index) of its buffer: *it
\* is the character toString(b)[index] when 0 <= index < length(b) and
\* raises text_out_of_range when the iterator is at or past the end; it[d]
\* is *(it + d) and leaves it as it was.
C26_Deref ==
  last.op = "deref" =>
    LET it  == last.args[1]
        d   == last.args[2]
        len == length(bufs[last.b])
        txt == PlainText(bufs, last.b)
        j   == to_size(it.m_current_index + d)
    IN  /\ it.m_current_index < len =>
              last.out = "ok" /\ last.val[1] = txt[it.m_current_index + 1]
        /\ it.m_current_index >= len => last.out = "text_out_of_range"
        /\ j < len  => last.val[2] = [out |-> "ok", val |-> txt[j + 1]]
        /\ j >= len => last.val[2].out = "text_out_of_range"
        /\ last.val[3] = it

\* *it read a character of the patch of a replacement, and it[d] raised
\* for a position past the end
C26_Witness ==
  /\ last.op = "deref" /\ last.out = "ok"
  /\ last.b \in Replacements
  /\ last.args[1].m_current_index >= bufs[last.b].m_prefix_length
  /\ last.args[1].m_current_index < bufs[last.b].m_prefix_length + bufs[last.b].m_patch_length
  /\ bufs[last.b].m_prefix_length > 0
  /\ last.args[2] > 0
  /\ last.val[2].out = "text_out_of_range"

\* *b.end() raised
C26_WitnessEnd ==
  /\ last.op = "deref" /\ last.out = "text_out_of_range"
  /\ last.args[1] = end(bufs, last.b)
  /\ length(bufs[last.b]) > 0

\* C27: the iterator overload raises iterator_mismatch and builds no buffer
\* whenever cut_from or cut_to is not an iterator of base, or patch_from or
\* patch_to is not an iterator of patch.
C27_IteratorMismatch ==
  last.op = "text_replacement_it_any" =>
    LET bi == last.args[1]
        pi == last.args[4]
    IN  (\/ last.args[2].m_target # bi \/ last.args[3].m_target # bi
         \/ last.args[5].m_target # pi \/ last.args[6].m_target # pi)
        => /\ last.out = "iterator_mismatch"
           /\ last.b = 0
           /\ Len(bufs) = last.val[1]

\* the cut made with iterators of the base of base (an ancestor), the patch
\* iterators being iterators of patch
C27_Witness ==
  /\ last.op = "text_replacement_it_any" /\ last.out = "iterator_mismatch"
  /\ last.args[1] \in Replacements
  /\ last.args[2].m_target = bufs[last.args[1]].m_base
  /\ last.args[3].m_target = bufs[last.args[1]].m_base
  /\ last.args[2].m_target # last.args[1]
  /\ last.args[5].m_target = last.args[4] /\ last.args[6].m_target = last.args[4]

\* the cut iterators and the patch iterators swapped
C27_WitnessSwapped ==
  /\ last.op = "text_replacement_it_any" /\ last.out = "iterator_mismatch"
  /\ last.args[1] # last.args[4]
  /\ last.args[2].m_target = last.args[4] /\ last.args[3].m_target = last.args[4]
  /\ last.args[5].m_target = last.args[1] /\ last.args[6].m_target = last.args[1]

\* the entries of map m the trimmer of the view [nb, ne) is applied to
Trimmed(m, nb, ne) == {m[n] : n \in trimmed_begin(m, nb)..(trimmed_end(m, ne) - 1)}

\* both assertions of the trimmer hold for every entry of the view [nb, ne)
\* of m, and every segment it returns has its begin at or before its end
ViewHolds(m, nb, ne) ==
  \A x \in Trimmed(m, nb, ne) :
    /\ x.eo >= nb
    /\ begin_offset_of(x) <= ne
    /\ rope_node_trimmer(nb, ne, 0, x).b <= rope_node_trimmer(nb, ne, 0, x).e

\* C28: for every makeReplacement with valid bounds, on bases and patches
\* built by earlier valid replacements, the two assertions of the trimmer
\* hold for every entry it is applied to (end offset >= begin of the
\* restriction, begin offset <= end of the restriction), and the narrowed
\* segment has begin <= end; no call is aborted by an assertion.
C28_TrimmerAssertionsHold ==
  last.op = "text_replacement" =>
    LET mb == bufs[last.args[1]].m_rope
        mp == bufs[last.args[4]].m_rope
        cf == last.args[2]
        ct == last.args[3]
        pf == last.args[5]
        pt == last.args[6]
    IN  /\ last.out = "ok"
        /\ ViewHolds(mb, 0, cf)
        /\ ViewHolds(mp, pf, pt)
        /\ ViewHolds(mb, ct, length(bufs[last.args[1]]))
        /\ \A y \in Nodes(bufs[last.b].m_rope) : y.b <= y.e

\* the trimmer narrowed an entry of the base at its end for the prefix,
\* another at its begin for the postfix, and an entry of the patch, the base
\* being a replacement itself
C28_Witness ==
  /\ last.op = "text_replacement" /\ last.out = "ok"
  /\ last.args[1] \in Replacements
  /\ \E x \in Trimmed(bufs[last.args[1]].m_rope, 0, last.args[2]) :
        Straddles(x, last.args[2])
  /\ \E x \in Trimmed(bufs[last.args[1]].m_rope, last.args[3],
                        length(bufs[last.args[1]])) :
        Straddles(x, last.args[3])
  /\ \E x \in Trimmed(bufs[last.args[4]].m_rope, last.args[5], last.args[6]) :
        Straddles(x, last.args[5]) \/ Straddles(x, last.args[6])

\* the entries of a rope whose segment is not empty
NonEmpty(m) == {y \in Nodes(m) : seg_len(y) > 0}

\* C29: the rope grows by a bounded number of entries per edit: for every
\* makeReplacement with valid bounds the result has at most
\* entries(base) + entries(patch) + 1 entries that are not empty (even when
\* only the entries of base and patch that are not empty are counted).
C29_GrowthBound ==
  \A n \in Replacements :
    /\ Cardinality(NonEmpty(bufs[n].m_rope))
         <= Len(bufs[bufs[n].m_base].m_rope) + Len(bufs[bufs[n].m_patch].m_rope) + 1
    /\ Cardinality(NonEmpty(bufs[n].m_rope))
         <= Cardinality(NonEmpty(bufs[bufs[n].m_base].m_rope))
            + Cardinality(NonEmpty(bufs[bufs[n].m_patch].m_rope)) + 1

\* an insertion inside a node of a base of several entries: the bound is
\* reached, counting the entries of base and patch that are not empty
C29_Witness ==
  \E n \in Replacements :
    /\ bufs[n].m_base \in Replacements
    /\ Cardinality(NonEmpty(bufs[bufs[n].m_base].m_rope)) > 1
    /\ \E x \in Nodes(bufs[bufs[n].m_base].m_rope) : Straddles(x, cut_from_of(bufs[n]))
    /\ Cardinality(NonEmpty(bufs[n].m_rope))
         = Cardinality(NonEmpty(bufs[bufs[n].m_base].m_rope))
           + Cardinality(NonEmpty(bufs[bufs[n].m_patch].m_rope)) + 1
    /\ last.op = "text_replacement" /\ last.b = n

\* C30: in the draft with iterator helpers, copying an iterator of a
\* text_selection keeps its position: after moves a copy has the absolute
\* index of the original and denotes the same character, so for a selection
\* s and 0 <= n <= length(s), (s.cbegin() + n) - s.cbegin() = n and
\* s.cbegin() + length(s) == s.cend().
C30_CopyKeepsPosition ==
  last.op = "iterate" /\ bufs[last.b].kind = "selection" =>
    /\ last.val[2] = last.val[1]
    /\ last.val[3] # << >> => last.val[3][2] = last.val[3][1]
    /\ last.val[4] = last.args[1]
    /\ last.args[1] = helpers_length(bufs[last.b]) => last.val[5]

\* what does hold for a selection: the copy denotes the character of the
\* original, and the original has the index it was moved to
C30_CopyKeepsCharacter ==
  last.op = "iterate" /\ bufs[last.b].kind = "selection" =>
    /\ last.val[1] = last.args[1]
    /\ last.val[3] # << >> => last.val[3][2] = last.val[3][1]

\* ... and all of it for the iterators of a text_string
C30_StringCopyKeepsPosition ==
  last.op = "iterate" /\ bufs[last.b].kind = "string" =>
    /\ last.val[2] = last.val[1]
    /\ last.val[3] # << >> => last.val[3][2] = last.val[3][1]
    /\ last.val[4] = last.args[1]
    /\ last.args[1] = helpers_length(bufs[last.b]) => last.val[5]

====
